---- MODULE Spec2Model ----
(***************************************************************************)
(* Host-interaction instruction handlers of evmodin                       *)
(* (src/instructions/external.rs).                                         *)
(*                                                                         *)
(* Every handler is a coroutine: it runs uninterrupted up to a             *)
(* `co.yield_(Interrupt).await`, where it hands an Interrupt to the driver *)
(* and is suspended until the driver resumes it with a ResumeDataVariant.  *)
(* One action of the model is one such uninterrupted stretch of one        *)
(* handler, executed by one call frame.                                    *)
(*                                                                         *)
(* Representation of machine words.  A U256 is the triple <<lo, mid, hi>>  *)
(* of its bits 0..63, 64..159 and 160..255; an Address (160 bits) is the   *)
(* pair <<lo, mid>>; an H256 is the big-endian triple <<hi, mid, lo>>.     *)
(* Every component stands for itself and is kept small, so that the        *)
(* truncations and widenings of the code are computed exactly.             *)
(***************************************************************************)
EXTENDS Integers, Sequences, FiniteSets, TLC

\* ------------------------------------------------------------------ bounds

\* LOG regions have sizes 0..MaxSize.
MaxSize == 2
\* Stack words, storage values and balances have low parts 0..MaxWord.
MaxWord == 1

\* --------------------------------------------------------------- revisions

Frontier == 0
Homestead == 1
Tangerine == 2
Spurious == 3
Byzantium == 4
Constantinople == 5
Petersburg == 6
Istanbul == 7
Berlin == 8
London == 9

Revision == Frontier..London

\* --------------------------------------------------------------- gas costs

WARM_STORAGE_READ_COST == 100
COLD_ACCOUNT_ACCESS_COST == 2600
COLD_SLOAD_COST == 2100
ADDITIONAL_COLD_ACCOUNT_ACCESS_COST == COLD_ACCOUNT_ACCESS_COST - WARM_STORAGE_READ_COST
ADDITIONAL_COLD_SLOAD_COST == COLD_SLOAD_COST - WARM_STORAGE_READ_COST
\* the literals of sstore, selfdestruct and do_log
SstoreStipend == 2300
SelfdestructNewAccountCost == 25000
LogByteCost == 8
BlockHashWindow == 256

\* ------------------------------------------------------------------- words

U256From64(n) == <<n, 0, 0>>
U256Zero == <<0, 0, 0>>
U256IsZero(w) == w = U256Zero
\* `number <= u64::MAX.into()`
FitsU64(w) == w[2] = 0 /\ w[3] = 0
AsU64(w) == w[1]
\* the low 160 bits
u256_to_address(w) == <<w[1], w[2]>>
address_to_u256(a) == <<a[1], a[2], 0>>
\* H256(x.into()): the 32 bytes of x, big-endian
H256FromU256(w) == <<w[3], w[2], w[1]>>
\* U256::from_big_endian(h.as_bytes())
U256FromBigEndian(h) == <<h[3], h[2], h[1]>>
H256Zero == <<0, 0, 0>>

\* u64::saturating_sub
SaturatingSub(a, b) == IF a < b THEN 0 ELSE a - b

\* ---------------------------------------------------------------- host data

Cold == "Cold"
Warm == "Warm"
AccessStatus == {Cold, Warm}
StorageStatus == {"Unchanged", "Modified", "ModifiedAgain", "Added", "Deleted"}

\* The block numbers the host reports: below, at and above the 256-block window.
BlockNumbers == {0, 1, BlockHashWindow, BlockHashWindow + 1}

TxContextOf(b) ==
    [tx_gas_price |-> <<51, 0, 1>>, tx_origin |-> <<52, 1>>, block_coinbase |-> <<53, 2>>,
     block_number |-> b, block_timestamp |-> 54, block_gas_limit |-> 55,
     block_difficulty |-> <<56, 1, 0>>, chain_id |-> <<57, 0, 0>>,
     block_base_fee |-> <<58, 0, 2>>]

TxContexts == {TxContextOf(b) : b \in BlockNumbers}

\* 256-bit values a host answers with: small ones and one with only high bits set.
HostWords == {<<n, 0, 0>> : n \in 0..MaxWord} \cup {<<0, 0, 1>>}
HostHashes == {<<0, 0, 0>>, <<7, 0, 9>>}

\* ResumeDataVariant
ResumeEmpty == [kind |-> "Empty"]
ResumeData ==
    {ResumeEmpty}
    \cup {[kind |-> "AccountExistsStatus", exists |-> e] : e \in BOOLEAN}
    \cup {[kind |-> "Balance", balance |-> w] : w \in HostWords}
    \cup {[kind |-> "CodeSize", code_size |-> w] : w \in HostWords}
    \cup {[kind |-> "StorageValue", value |-> h] : h \in HostHashes}
    \cup {[kind |-> "StorageStatusInfo", status |-> s] : s \in StorageStatus}
    \cup {[kind |-> "BlockHash", hash |-> h] : h \in HostHashes}
    \cup {[kind |-> "TxContextData", context |-> c] : c \in TxContexts}
    \cup {[kind |-> "AccessAccountStatus", status |-> s] : s \in AccessStatus}
    \cup {[kind |-> "AccessStorageStatus", status |-> s] : s \in AccessStatus}

\* The ResumeDataVariant that answers each InterruptDataVariant.
ResumeKindFor(k) ==
    CASE k = "AccessAccount" -> "AccessAccountStatus"
      [] k = "AccessStorage" -> "AccessStorageStatus"
      [] k = "GetBalance" -> "Balance"
      [] k = "GetCodeSize" -> "CodeSize"
      [] k = "GetTxContext" -> "TxContextData"
      [] k = "GetBlockHash" -> "BlockHash"
      [] k = "GetStorage" -> "StorageValue"
      [] k = "SetStorage" -> "StorageStatusInfo"
      [] k = "AccountExists" -> "AccountExistsStatus"
      [] k = "EmitLog" -> "Empty"
      [] k = "Selfdestruct" -> "Empty"

NoInterrupt == [kind |-> "None"]
EffectKinds == {"SetStorage", "EmitLog", "Selfdestruct"}

\* ------------------------------------------------------------ initial state

Frames == {1, 2}

\* Operands on top of the stack: an address, key, block number or memory offset.
TopWords ==
    {<<n, 0, 0>> : n \in 0..MaxWord} \cup {<<BlockHashWindow, 0, 0>>, <<0, 1, 0>>, <<1, 0, 1>>}
\* Second operand: a region size or a storage value.
SecondWords == {<<n, 0, 0>> : n \in 0..MaxSize} \cup {<<0, 0, 1>>}
\* Four more words, the topics of a LOG4.
TopicWords == <<<<11, 0, 0>>, <<12, 1, 0>>, <<13, 0, 1>>, <<14, 0, 0>>>>

GasValues ==
    {LogByteCost - 1, LogByteCost,
     ADDITIONAL_COLD_SLOAD_COST - 1, ADDITIONAL_COLD_SLOAD_COST,
     SstoreStipend, SstoreStipend + 1,
     ADDITIONAL_COLD_ACCOUNT_ACCESS_COST, COLD_ACCOUNT_ACCESS_COST,
     SelfdestructNewAccountCost,
     COLD_ACCOUNT_ACCESS_COST + SelfdestructNewAccountCost}

\* One word of memory is already in use: byte i holds i.
InitialMemory == [i \in 1..32 |-> i]

MessageOf(f, static) ==
    [destination |-> <<20 + f, 5>>, sender |-> <<30 + f, 6>>,
     value |-> <<40 + f, 0, 7>>, is_static |-> static]

ExecutionStates(f) ==
    {[stack |-> <<a, b>> \o TopicWords, gas_left |-> g, memory |-> InitialMemory,
      message |-> MessageOf(f, st), evm_revision |-> r] :
        a \in TopWords, b \in SecondWords, g \in GasValues, st \in BOOLEAN, r \in Revision}

NoLocals ==
    [address |-> <<0, 0>>, beneficiary |-> <<0, 0>>, key |-> H256Zero,
     value |-> H256Zero, cost |-> 0, number |-> U256Zero]

VARIABLES
    state,      \* state[f]: the ExecutionState of call frame f
    entry,      \* entry[f]: the ExecutionState with which f's handler was invoked
    op,         \* op[f]: the instruction f's dispatcher invoked, "none" before
    pc,         \* pc[f]: "ready", the await the handler is suspended at, or "done"
    locals,     \* locals[f]: the handler's variables that live across an await
    interrupt,  \* interrupt[f]: the Interrupt f has outstanding, or NoInterrupt
    issued,     \* issued[f]: the Interrupts f's handler has yielded, in order
    resumed,    \* resumed[f]: the ResumeData f's handler has unwrapped, in order
    result      \* result[f]: "none" while running, then the handler's outcome

vars == <<state, entry, op, pc, locals, interrupt, issued, resumed, result>>

InitOf(live) ==
    /\ \E s \in [live -> ExecutionStates(1)] :
         state = [f \in live |-> [s[f] EXCEPT !.message = MessageOf(f, @.is_static)]]
    /\ entry = state
    /\ op = [f \in live |-> "none"]
    /\ pc = [f \in live |-> "ready"]
    /\ locals = [f \in live |-> NoLocals]
    /\ interrupt = [f \in live |-> NoInterrupt]
    /\ issued = [f \in live |-> <<>>]
    /\ resumed = [f \in live |-> <<>>]
    /\ result = [f \in live |-> "none"]

Init == InitOf({1})

Live == DOMAIN pc

\* ------------------------------------------------------- coroutine plumbing

Push(stack, w) == <<w>> \o stack

\* `co.yield_(req).await`: hand req to the driver and suspend at `at`.
Yield(f, req, at) ==
    /\ interrupt' = [interrupt EXCEPT ![f] = req]
    /\ issued' = [issued EXCEPT ![f] = Append(@, req)]
    /\ pc' = [pc EXCEPT ![f] = at]
    /\ UNCHANGED result

\* The handler returns: Ok(()) is "ok", Err(status) is the status.
Return(f, res) ==
    /\ interrupt' = [interrupt EXCEPT ![f] = NoInterrupt]
    /\ pc' = [pc EXCEPT ![f] = "done"]
    /\ result' = [result EXCEPT ![f] = res]
    /\ UNCHANGED issued

\* `into_xxx(..).unwrap()` or `assert!(matches!(..))` on a ResumeDataVariant of
\* another kind: the handler panics.
Panic(f) ==
    /\ Return(f, "panic")
    /\ UNCHANGED <<state, entry, op, locals, resumed>>

\* The dispatcher invokes the handler of instruction o on a frame that has
\* at least `operands` words on its stack.
Invoke(f, o, operands) ==
    /\ f \in Live
    /\ pc[f] = "ready"
    /\ Len(state[f].stack) >= operands
    /\ op' = [op EXCEPT ![f] = o]
    /\ UNCHANGED entry

\* The driver resumes the handler suspended at `at`.
Resumable(f, at) == f \in Live /\ pc[f] = at /\ interrupt[f] # NoInterrupt

Unwrapped(f, r) == resumed' = [resumed EXCEPT ![f] = Append(@, r)]

\* Mutation: the static guard is applied only where STATICCALL exists.
StaticCall_SinceByzantium(s) == s.message.is_static /\ s.evm_revision >= Byzantium

\* `if $state.message.is_static { return Err(StatusCode::StaticModeViolation) }`
StaticCall(s) == s.message.is_static

\* ----------------------------------------------- address, caller, callvalue

Address(f) ==
    /\ Invoke(f, "address", 0)
    /\ state' = [state EXCEPT ![f].stack = Push(@, address_to_u256(state[f].message.destination))]
    /\ Return(f, "ok")
    /\ UNCHANGED <<locals, resumed>>

\* Mutation: CALLER pushes the destination, as ADDRESS does.
Caller_Destination(f) ==
    /\ Invoke(f, "caller", 0)
    /\ state' = [state EXCEPT ![f].stack = Push(@, address_to_u256(state[f].message.destination))]
    /\ Return(f, "ok")
    /\ UNCHANGED <<locals, resumed>>

Caller(f) ==
    /\ Invoke(f, "caller", 0)
    /\ state' = [state EXCEPT ![f].stack = Push(@, address_to_u256(state[f].message.sender))]
    /\ Return(f, "ok")
    /\ UNCHANGED <<locals, resumed>>

Callvalue(f) ==
    /\ Invoke(f, "callvalue", 0)
    /\ state' = [state EXCEPT ![f].stack = Push(@, state[f].message.value)]
    /\ Return(f, "ok")
    /\ UNCHANGED <<locals, resumed>>

\* ---------------------------------------------------- balance, extcodesize

\* Mutation: the full cold cost is charged instead of the surcharge.
ColdAccountSurcharge_FullCost(access_status) ==
    IF access_status = Cold THEN COLD_ACCOUNT_ACCESS_COST ELSE 0

\* `gas_left -= ADDITIONAL_COLD_ACCOUNT_ACCESS_COST` when the access is Cold.
ColdAccountSurcharge(access_status) ==
    IF access_status = Cold THEN ADDITIONAL_COLD_ACCOUNT_ACCESS_COST ELSE 0

Balance(f) ==
    /\ Invoke(f, "balance", 1)
    /\ LET address == u256_to_address(Head(state[f].stack)) IN
        /\ state' = [state EXCEPT ![f].stack = Tail(@)]
        /\ locals' = [locals EXCEPT ![f].address = address]
        /\ IF state[f].evm_revision >= Berlin
             THEN Yield(f, [kind |-> "AccessAccount", address |-> address], "balance_access")
             ELSE Yield(f, [kind |-> "GetBalance", address |-> address], "balance_get")
    /\ UNCHANGED resumed

\* Mutation: the surcharge is taken from one gas counter shared by the frames.
BalanceAccess_SharedGas(f) ==
    /\ Resumable(f, "balance_access")
    /\ \E r \in ResumeData :
        IF r.kind # "AccessAccountStatus" THEN Panic(f)
        ELSE LET gas == state[f].gas_left - ColdAccountSurcharge(r.status) IN
            /\ Unwrapped(f, r)
            /\ state' = [g \in DOMAIN state |->
                           [state[g] EXCEPT !.gas_left = @ - ColdAccountSurcharge(r.status)]]
            /\ IF r.status = Cold /\ gas < 0
                 THEN Return(f, "OutOfGas")
                 ELSE Yield(f, [kind |-> "GetBalance", address |-> locals[f].address],
                            "balance_get")
            /\ UNCHANGED <<entry, op, locals>>

BalanceAccess(f) ==
    /\ Resumable(f, "balance_access")
    /\ \E r \in ResumeData :
        IF r.kind # "AccessAccountStatus" THEN Panic(f)
        ELSE LET gas == state[f].gas_left - ColdAccountSurcharge(r.status) IN
            /\ Unwrapped(f, r)
            /\ state' = [state EXCEPT ![f].gas_left = gas]
            /\ IF r.status = Cold /\ gas < 0
                 THEN Return(f, "OutOfGas")
                 ELSE Yield(f, [kind |-> "GetBalance", address |-> locals[f].address],
                            "balance_get")
            /\ UNCHANGED <<entry, op, locals>>

BalanceGet(f) ==
    /\ Resumable(f, "balance_get")
    /\ \E r \in ResumeData :
        IF r.kind # "Balance" THEN Panic(f)
        ELSE
            /\ Unwrapped(f, r)
            /\ state' = [state EXCEPT ![f].stack = Push(@, r.balance)]
            /\ Return(f, "ok")
            /\ UNCHANGED <<entry, op, locals>>

Extcodesize(f) ==
    /\ Invoke(f, "extcodesize", 1)
    /\ LET address == u256_to_address(Head(state[f].stack)) IN
        /\ state' = [state EXCEPT ![f].stack = Tail(@)]
        /\ locals' = [locals EXCEPT ![f].address = address]
        /\ IF state[f].evm_revision >= Berlin
             THEN Yield(f, [kind |-> "AccessAccount", address |-> address],
                        "extcodesize_access")
             ELSE Yield(f, [kind |-> "GetCodeSize", address |-> address], "extcodesize_get")
    /\ UNCHANGED resumed

ExtcodesizeAccess(f) ==
    /\ Resumable(f, "extcodesize_access")
    /\ \E r \in ResumeData :
        IF r.kind # "AccessAccountStatus" THEN Panic(f)
        ELSE LET gas == state[f].gas_left - ColdAccountSurcharge(r.status) IN
            /\ Unwrapped(f, r)
            /\ state' = [state EXCEPT ![f].gas_left = gas]
            /\ IF r.status = Cold /\ gas < 0
                 THEN Return(f, "OutOfGas")
                 ELSE Yield(f, [kind |-> "GetCodeSize", address |-> locals[f].address],
                            "extcodesize_get")
            /\ UNCHANGED <<entry, op, locals>>

ExtcodesizeGet(f) ==
    /\ Resumable(f, "extcodesize_get")
    /\ \E r \in ResumeData :
        IF r.kind # "CodeSize" THEN Panic(f)
        ELSE
            /\ Unwrapped(f, r)
            /\ state' = [state EXCEPT ![f].stack = Push(@, r.code_size)]
            /\ Return(f, "ok")
            /\ UNCHANGED <<entry, op, locals>>

\* ------------------------------------------- transaction context, selfbalance

origin_accessor(tx_context) == address_to_u256(tx_context.tx_origin)
coinbase_accessor(tx_context) == address_to_u256(tx_context.block_coinbase)
gasprice_accessor(tx_context) == tx_context.tx_gas_price
\* Mutation: TIMESTAMP projects the block number.
timestamp_accessor_Number(tx_context) == U256From64(tx_context.block_number)
timestamp_accessor(tx_context) == U256From64(tx_context.block_timestamp)
number_accessor(tx_context) == U256From64(tx_context.block_number)
gaslimit_accessor(tx_context) == U256From64(tx_context.block_gas_limit)
difficulty_accessor(tx_context) == tx_context.block_difficulty
chainid_accessor(tx_context) == tx_context.chain_id
basefee_accessor(tx_context) == tx_context.block_base_fee

TxContextOps ==
    {"origin", "coinbase", "gasprice", "timestamp", "number", "gaslimit", "difficulty",
     "chainid", "basefee"}

\* The $accessor the dispatcher passes to push_txcontext! for each instruction.
Accessor(o, tx_context) ==
    CASE o = "origin" -> origin_accessor(tx_context)
      [] o = "coinbase" -> coinbase_accessor(tx_context)
      [] o = "gasprice" -> gasprice_accessor(tx_context)
      [] o = "timestamp" -> timestamp_accessor(tx_context)
      [] o = "number" -> number_accessor(tx_context)
      [] o = "gaslimit" -> gaslimit_accessor(tx_context)
      [] o = "difficulty" -> difficulty_accessor(tx_context)
      [] o = "chainid" -> chainid_accessor(tx_context)
      [] o = "basefee" -> basefee_accessor(tx_context)

PushTxcontext(f) ==
    \E o \in TxContextOps :
        /\ Invoke(f, o, 0)
        /\ Yield(f, [kind |-> "GetTxContext"], "txcontext_get")
        /\ UNCHANGED <<state, locals, resumed>>

PushTxcontextGet(f) ==
    /\ Resumable(f, "txcontext_get")
    /\ \E r \in ResumeData :
        IF r.kind # "TxContextData" THEN Panic(f)
        ELSE
            /\ Unwrapped(f, r)
            /\ state' = [state EXCEPT ![f].stack = Push(@, Accessor(op[f], r.context))]
            /\ Return(f, "ok")
            /\ UNCHANGED <<entry, op, locals>>

Selfbalance(f) ==
    /\ Invoke(f, "selfbalance", 0)
    /\ Yield(f, [kind |-> "GetBalance", address |-> state[f].message.destination],
             "selfbalance_get")
    /\ UNCHANGED <<state, locals, resumed>>

SelfbalanceGet(f) ==
    /\ Resumable(f, "selfbalance_get")
    /\ \E r \in ResumeData :
        IF r.kind # "Balance" THEN Panic(f)
        ELSE
            /\ Unwrapped(f, r)
            /\ state' = [state EXCEPT ![f].stack = Push(@, r.balance)]
            /\ Return(f, "ok")
            /\ UNCHANGED <<entry, op, locals>>

\* ------------------------------------------------------------------ blockhash

\* Mutation: the current block itself counts as available.
BlockhashAvailable_InclusiveUpper(number, upper_bound) ==
    LET lower_bound == SaturatingSub(upper_bound, BlockHashWindow) IN
    /\ FitsU64(number)
    /\ lower_bound <= AsU64(number)
    /\ AsU64(number) <= upper_bound

\* Mutation: the oldest block of the window is left out.
BlockhashAvailable_ExclusiveLower(number, upper_bound) ==
    LET lower_bound == SaturatingSub(upper_bound, BlockHashWindow) IN
    /\ FitsU64(number)
    /\ lower_bound < AsU64(number)
    /\ AsU64(number) < upper_bound

\* `number <= u64::MAX && (lower_bound..upper_bound).contains(&number.as_u64())`
BlockhashAvailable(number, upper_bound) ==
    LET lower_bound == SaturatingSub(upper_bound, BlockHashWindow) IN
    /\ FitsU64(number)
    /\ lower_bound <= AsU64(number)
    /\ AsU64(number) < upper_bound

Blockhash(f) ==
    /\ Invoke(f, "blockhash", 1)
    /\ state' = [state EXCEPT ![f].stack = Tail(@)]
    /\ locals' = [locals EXCEPT ![f].number = Head(state[f].stack)]
    /\ Yield(f, [kind |-> "GetTxContext"], "blockhash_context")
    /\ UNCHANGED resumed

BlockhashContext(f) ==
    /\ Resumable(f, "blockhash_context")
    /\ \E r \in ResumeData :
        IF r.kind # "TxContextData" THEN Panic(f)
        ELSE LET upper_bound == r.context.block_number IN
            /\ Unwrapped(f, r)
            /\ IF BlockhashAvailable(locals[f].number, upper_bound)
                 THEN /\ Yield(f, [kind |-> "GetBlockHash",
                                   block_number |-> AsU64(locals[f].number)],
                               "blockhash_get")
                      /\ UNCHANGED state
                 ELSE /\ state' = [state EXCEPT
                                     ![f].stack = Push(@, U256FromBigEndian(H256Zero))]
                      /\ Return(f, "ok")
            /\ UNCHANGED <<entry, op, locals>>

BlockhashGet(f) ==
    /\ Resumable(f, "blockhash_get")
    /\ \E r \in ResumeData :
        IF r.kind # "BlockHash" THEN Panic(f)
        ELSE
            /\ Unwrapped(f, r)
            /\ state' = [state EXCEPT ![f].stack = Push(@, U256FromBigEndian(r.hash))]
            /\ Return(f, "ok")
            /\ UNCHANGED <<entry, op, locals>>

\* --------------------------------------------------------------------- log

NoRegion == [offset |-> 0, size |-> 0]

num_words(size_in_bytes) == (size_in_bytes + 31) \div 32
MemoryCost(words) == 3 * words + (words * words) \div 512

\* memory::verify_memory_region: no region for a zero size; an offset or size
\* beyond 32 bits is refused; growing the memory is charged before it is done.
verify_memory_region(s, offset, size) ==
    IF U256IsZero(size) THEN [err |-> FALSE, region |-> NoRegion, state |-> s]
    ELSE IF ~FitsU64(offset) \/ ~FitsU64(size) THEN [err |-> TRUE, region |-> NoRegion, state |-> s]
    ELSE LET new_size == AsU64(offset) + AsU64(size)
             region == [offset |-> AsU64(offset), size |-> AsU64(size)]
             new_words == num_words(new_size)
             current_words == Len(s.memory) \div 32
             cost == MemoryCost(new_words) - MemoryCost(current_words)
             charged == [s EXCEPT !.gas_left = @ - cost]
             grown == [charged EXCEPT !.memory =
                         [i \in 1..(new_words * 32) |->
                            IF i <= Len(s.memory) THEN s.memory[i] ELSE 0]]
         IN  IF new_size <= Len(s.memory) THEN [err |-> FALSE, region |-> region, state |-> s]
             ELSE IF charged.gas_left < 0 THEN [err |-> TRUE, region |-> NoRegion, state |-> charged]
             ELSE [err |-> FALSE, region |-> region, state |-> grown]

\* Mutation: the charge is credited instead of debited.
LogCost_Credit(size) == 0 - size * LogByteCost

\* `region.size.get() as i64 * 8`
LogCost(size) == size * LogByteCost

\* `if cost < 0 { return Err(StatusCode::OutOfGas) }` after `gas_left -= cost`
LogChargeFails(cost, gas_left) == cost < 0

\* Mutation: the topics are collected in the reverse of the stack order.
PopTopics_Reversed(stack, num_topics) ==
    [i \in 1..num_topics |-> H256FromU256(stack[num_topics + 1 - i])]

\* `for _ in 0..num_topics { topics.push(H256(stack.pop().into())) }`
PopTopics(stack, num_topics) == [i \in 1..num_topics |-> H256FromU256(stack[i])]

LogData(memory, region) ==
    IF region = NoRegion THEN <<>>
    ELSE SubSeq(memory, region.offset + 1, region.offset + region.size)

MaxTopics == 4
LogOps == <<"log0", "log1", "log2", "log3", "log4">>
IsLogOp(o) == \E k \in 0..MaxTopics : o = LogOps[k + 1]
NumTopics(o) == CHOOSE k \in 0..MaxTopics : o = LogOps[k + 1]

DoLog(f) ==
    \E num_topics \in 0..MaxTopics :
        /\ Invoke(f, LogOps[num_topics + 1], 2 + num_topics)
        /\ UNCHANGED <<locals, resumed>>
        /\ IF StaticCall(state[f])
             THEN Return(f, "StaticModeViolation") /\ UNCHANGED state
             ELSE
               LET offset == state[f].stack[1]
                   size == state[f].stack[2]
                   popped == [state[f] EXCEPT !.stack = Tail(Tail(@))]
                   v == verify_memory_region(popped, offset, size)
                   cost == LogCost(v.region.size)
                   charged == IF v.region # NoRegion
                                THEN [v.state EXCEPT !.gas_left = @ - cost]
                                ELSE v.state
                   topics == PopTopics(charged.stack, num_topics)
                   final == [charged EXCEPT
                               !.stack = SubSeq(@, num_topics + 1, Len(@))]
               IN  IF v.err
                     THEN state' = [state EXCEPT ![f] = v.state] /\ Return(f, "OutOfGas")
                   ELSE IF v.region # NoRegion /\ LogChargeFails(cost, charged.gas_left)
                     THEN state' = [state EXCEPT ![f] = charged] /\ Return(f, "OutOfGas")
                   ELSE /\ state' = [state EXCEPT ![f] = final]
                        /\ Yield(f, [kind |-> "EmitLog",
                                     address |-> state[f].message.destination,
                                     data |-> LogData(final.memory, v.region),
                                     topics |-> topics], "log_emit")

\* Mutation: the acknowledgment is not asserted to be Empty.
DoLogEmit_NoAssert(f) ==
    /\ Resumable(f, "log_emit")
    /\ \E r \in ResumeData :
        /\ Unwrapped(f, r)
        /\ Return(f, "ok")
        /\ UNCHANGED <<state, entry, op, locals>>

DoLogEmit(f) ==
    /\ Resumable(f, "log_emit")
    /\ \E r \in ResumeData :
        IF r.kind # "Empty" THEN Panic(f)
        ELSE
            /\ Unwrapped(f, r)
            /\ Return(f, "ok")
            /\ UNCHANGED <<state, entry, op, locals>>

\* ------------------------------------------------------------------- sload

ColdSloadSurcharge(access_status) ==
    IF access_status = Cold THEN ADDITIONAL_COLD_SLOAD_COST ELSE 0

\* Mutation: the access status is requested under every revision.
Sload_AlwaysAccess(f) ==
    /\ Invoke(f, "sload", 1)
    /\ LET key == H256FromU256(Head(state[f].stack)) IN
        /\ state' = [state EXCEPT ![f].stack = Tail(@)]
        /\ locals' = [locals EXCEPT ![f].key = key]
        /\ Yield(f, [kind |-> "AccessStorage",
                     address |-> state[f].message.destination, key |-> key],
                 "sload_access")
    /\ UNCHANGED resumed

Sload(f) ==
    /\ Invoke(f, "sload", 1)
    /\ LET key == H256FromU256(Head(state[f].stack)) IN
        /\ state' = [state EXCEPT ![f].stack = Tail(@)]
        /\ locals' = [locals EXCEPT ![f].key = key]
        /\ IF state[f].evm_revision >= Berlin
             THEN Yield(f, [kind |-> "AccessStorage",
                            address |-> state[f].message.destination, key |-> key],
                        "sload_access")
             ELSE Yield(f, [kind |-> "GetStorage",
                            address |-> state[f].message.destination, key |-> key],
                        "sload_get")
    /\ UNCHANGED resumed

SloadAccess(f) ==
    /\ Resumable(f, "sload_access")
    /\ \E r \in ResumeData :
        IF r.kind # "AccessStorageStatus" THEN Panic(f)
        ELSE LET gas == state[f].gas_left - ColdSloadSurcharge(r.status) IN
            /\ Unwrapped(f, r)
            /\ state' = [state EXCEPT ![f].gas_left = gas]
            /\ IF r.status = Cold /\ gas < 0
                 THEN Return(f, "OutOfGas")
                 ELSE Yield(f, [kind |-> "GetStorage",
                                address |-> state[f].message.destination,
                                key |-> locals[f].key], "sload_get")
            /\ UNCHANGED <<entry, op, locals>>

SloadGet(f) ==
    /\ Resumable(f, "sload_get")
    /\ \E r \in ResumeData :
        IF r.kind # "StorageValue" THEN Panic(f)
        ELSE
            /\ Unwrapped(f, r)
            /\ state' = [state EXCEPT ![f].stack = Push(@, U256FromBigEndian(r.value))]
            /\ Return(f, "ok")
            /\ UNCHANGED <<entry, op, locals>>

\* ------------------------------------------------------------------ sstore

\* Mutation: the stipend itself is let through.
SstoreStipendGuard_Strict(evm_revision, gas_left) ==
    evm_revision >= Istanbul /\ gas_left < SstoreStipend

\* `evm_revision >= Revision::Istanbul && gas_left <= 2300`
SstoreStipendGuard(evm_revision, gas_left) ==
    evm_revision >= Istanbul /\ gas_left <= SstoreStipend

\* `cost = COLD_SLOAD_COST` when the slot is Cold, else the initial 0
SstoreAccessCost(access_status) == IF access_status = Cold THEN COLD_SLOAD_COST ELSE 0

\* Mutation: the Constantinople price outlives Constantinople.
SstoreCost_SinceConstantinople(evm_revision, cost, status) ==
    CASE status \in {"Unchanged", "ModifiedAgain"} ->
            IF evm_revision >= Berlin THEN cost + WARM_STORAGE_READ_COST
            ELSE IF evm_revision = Istanbul THEN 800
            ELSE IF evm_revision >= Constantinople THEN 200
            ELSE 5000
      [] status \in {"Modified", "Deleted"} ->
            IF evm_revision >= Berlin THEN cost + 5000 - COLD_SLOAD_COST ELSE 5000
      [] status = "Added" -> cost + 20000

\* `cost = match status { .. }`
SstoreCost(evm_revision, cost, status) ==
    CASE status \in {"Unchanged", "ModifiedAgain"} ->
            IF evm_revision >= Berlin THEN cost + WARM_STORAGE_READ_COST
            ELSE IF evm_revision = Istanbul THEN 800
            ELSE IF evm_revision = Constantinople THEN 200
            ELSE 5000
      [] status \in {"Modified", "Deleted"} ->
            IF evm_revision >= Berlin THEN cost + 5000 - COLD_SLOAD_COST ELSE 5000
      [] status = "Added" -> cost + 20000

\* Mutation: the operands are taken in the other order.
SetStorageOf_Swapped(f, key, value) ==
    [kind |-> "SetStorage", address |-> state[f].message.destination,
     key |-> value, value |-> key]

SetStorageOf(f, key, value) ==
    [kind |-> "SetStorage", address |-> state[f].message.destination,
     key |-> key, value |-> value]

\* Mutation: the access-status and the write request are issued together.
Sstore_Batched(f) ==
    /\ Invoke(f, "sstore", 2)
    /\ UNCHANGED resumed
    /\ IF StaticCall(state[f])
         THEN Return(f, "StaticModeViolation") /\ UNCHANGED <<state, locals>>
       ELSE IF SstoreStipendGuard(state[f].evm_revision, state[f].gas_left)
         THEN Return(f, "OutOfGas") /\ UNCHANGED <<state, locals>>
       ELSE LET key == H256FromU256(state[f].stack[1])
                value == H256FromU256(state[f].stack[2])
                access == [kind |-> "AccessStorage",
                           address |-> state[f].message.destination, key |-> key]
            IN  /\ state' = [state EXCEPT ![f].stack = Tail(Tail(@))]
                /\ locals' = [locals EXCEPT ![f].key = key, ![f].value = value,
                                            ![f].cost = 0]
                /\ interrupt' = [interrupt EXCEPT ![f] = SetStorageOf(f, key, value)]
                /\ issued' = [issued EXCEPT ![f] =
                                IF state[f].evm_revision >= Berlin
                                  THEN @ \o <<access, SetStorageOf(f, key, value)>>
                                  ELSE Append(@, SetStorageOf(f, key, value))]
                /\ pc' = [pc EXCEPT ![f] = "sstore_set"]
                /\ UNCHANGED result

Sstore(f) ==
    /\ Invoke(f, "sstore", 2)
    /\ UNCHANGED resumed
    /\ IF StaticCall(state[f])
         THEN Return(f, "StaticModeViolation") /\ UNCHANGED <<state, locals>>
       ELSE IF SstoreStipendGuard(state[f].evm_revision, state[f].gas_left)
         THEN Return(f, "OutOfGas") /\ UNCHANGED <<state, locals>>
       ELSE LET key == H256FromU256(state[f].stack[1])
                value == H256FromU256(state[f].stack[2])
            IN  /\ state' = [state EXCEPT ![f].stack = Tail(Tail(@))]
                /\ locals' = [locals EXCEPT ![f].key = key, ![f].value = value,
                                            ![f].cost = 0]
                /\ IF state[f].evm_revision >= Berlin
                     THEN Yield(f, [kind |-> "AccessStorage",
                                    address |-> state[f].message.destination,
                                    key |-> key], "sstore_access")
                     ELSE Yield(f, SetStorageOf(f, key, value), "sstore_set")

SstoreAccess(f) ==
    /\ Resumable(f, "sstore_access")
    /\ \E r \in ResumeData :
        IF r.kind # "AccessStorageStatus" THEN Panic(f)
        ELSE
            /\ Unwrapped(f, r)
            /\ locals' = [locals EXCEPT ![f].cost = SstoreAccessCost(r.status)]
            /\ Yield(f, SetStorageOf(f, locals[f].key, locals[f].value), "sstore_set")
            /\ UNCHANGED <<state, entry, op>>

SstoreSet(f) ==
    /\ Resumable(f, "sstore_set")
    /\ \E r \in ResumeData :
        IF r.kind # "StorageStatusInfo" THEN Panic(f)
        ELSE LET cost == SstoreCost(state[f].evm_revision, locals[f].cost, r.status)
                 gas == state[f].gas_left - cost
             IN
            /\ Unwrapped(f, r)
            /\ locals' = [locals EXCEPT ![f].cost = cost]
            /\ state' = [state EXCEPT ![f].gas_left = gas]
            /\ Return(f, IF gas < 0 THEN "OutOfGas" ELSE "ok")
            /\ UNCHANGED <<entry, op>>

\* ------------------------------------------------------------ selfdestruct

\* Mutation: the surcharge of BALANCE is charged instead of the full cost.
SelfdestructColdCost_Surcharge(access_status) ==
    IF access_status = Cold THEN ADDITIONAL_COLD_ACCOUNT_ACCESS_COST ELSE 0

\* `gas_left -= COLD_ACCOUNT_ACCESS_COST` when the beneficiary is Cold.
SelfdestructColdCost(access_status) ==
    IF access_status = Cold THEN COLD_ACCOUNT_ACCESS_COST ELSE 0

\* Mutation: the negation is lost, an existing beneficiary is charged.
SelfdestructNewAccountCharge_Existing(exists) ==
    IF exists THEN SelfdestructNewAccountCost ELSE 0

\* `gas_left -= 25000` when the beneficiary does not exist.
SelfdestructNewAccountCharge(exists) ==
    IF ~exists THEN SelfdestructNewAccountCost ELSE 0

SelfdestructOf(f) ==
    [kind |-> "Selfdestruct", address |-> state[f].message.destination,
     beneficiary |-> locals'[f].beneficiary]

\* Mutation: the destruction is requested where the existence is asked.
AccountExistsOf_Selfdestruct(f) ==
    [kind |-> "Selfdestruct", address |-> state[f].message.destination,
     beneficiary |-> locals'[f].beneficiary]

AccountExistsOf(f) == [kind |-> "AccountExists", address |-> locals'[f].beneficiary]

\* Mutation: the balance is requested at Tangerine Whistle as well.
SelfdestructAfterAccess_BalanceAtTangerine(f) ==
    IF state[f].evm_revision >= Tangerine
      THEN Yield(f, [kind |-> "GetBalance",
                     address |-> state[f].message.destination],
                 "selfdestruct_balance")
      ELSE Yield(f, SelfdestructOf(f), "selfdestruct_end")

\* The condition of the `if` at the non-existent-beneficiary charge, evaluated
\* left to right: the balance is requested only after Tangerine.
SelfdestructAfterAccess(f) ==
    IF state[f].evm_revision >= Tangerine
      THEN IF state[f].evm_revision = Tangerine
             THEN Yield(f, AccountExistsOf(f), "selfdestruct_exists")
             ELSE Yield(f, [kind |-> "GetBalance",
                            address |-> state[f].message.destination],
                        "selfdestruct_balance")
      ELSE Yield(f, SelfdestructOf(f), "selfdestruct_end")

Selfdestruct(f) ==
    /\ Invoke(f, "selfdestruct", 1)
    /\ UNCHANGED resumed
    /\ IF StaticCall(state[f])
         THEN Return(f, "StaticModeViolation") /\ UNCHANGED <<state, locals>>
         ELSE LET beneficiary == u256_to_address(Head(state[f].stack)) IN
            /\ state' = [state EXCEPT ![f].stack = Tail(@)]
            /\ locals' = [locals EXCEPT ![f].beneficiary = beneficiary]
            /\ IF state[f].evm_revision >= Berlin
                 THEN Yield(f, [kind |-> "AccessAccount", address |-> beneficiary],
                            "selfdestruct_access")
                 ELSE SelfdestructAfterAccess(f)

SelfdestructAccess(f) ==
    /\ Resumable(f, "selfdestruct_access")
    /\ \E r \in ResumeData :
        IF r.kind # "AccessAccountStatus" THEN Panic(f)
        ELSE LET gas == state[f].gas_left - SelfdestructColdCost(r.status) IN
            /\ Unwrapped(f, r)
            /\ state' = [state EXCEPT ![f].gas_left = gas]
            /\ UNCHANGED <<entry, op, locals>>
            /\ IF r.status = Cold /\ gas < 0
                 THEN Return(f, "OutOfGas")
                 ELSE SelfdestructAfterAccess(f)

SelfdestructBalance(f) ==
    /\ Resumable(f, "selfdestruct_balance")
    /\ \E r \in ResumeData :
        IF r.kind # "Balance" THEN Panic(f)
        ELSE
            /\ Unwrapped(f, r)
            /\ UNCHANGED <<state, entry, op, locals>>
            /\ IF ~U256IsZero(r.balance)
                 THEN Yield(f, AccountExistsOf(f), "selfdestruct_exists")
                 ELSE Yield(f, SelfdestructOf(f), "selfdestruct_end")

SelfdestructExists(f) ==
    /\ Resumable(f, "selfdestruct_exists")
    /\ \E r \in ResumeData :
        IF r.kind # "AccountExistsStatus" THEN Panic(f)
        ELSE LET gas == state[f].gas_left - SelfdestructNewAccountCharge(r.exists) IN
            /\ Unwrapped(f, r)
            /\ state' = [state EXCEPT ![f].gas_left = gas]
            /\ UNCHANGED <<entry, op, locals>>
            /\ IF ~r.exists /\ gas < 0
                 THEN Return(f, "OutOfGas")
                 ELSE Yield(f, SelfdestructOf(f), "selfdestruct_end")

SelfdestructEnd(f) ==
    /\ Resumable(f, "selfdestruct_end")
    /\ \E r \in ResumeData :
        IF r.kind # "Empty" THEN Panic(f)
        ELSE
            /\ Unwrapped(f, r)
            /\ Return(f, "ok")
            /\ UNCHANGED <<state, entry, op, locals>>

\* -------------------------------------------------------------- the system

Next ==
    \/ \E f \in Frames : Address(f)
    \/ \E f \in Frames : Caller(f)
    \/ \E f \in Frames : Callvalue(f)
    \/ \E f \in Frames : Balance(f)
    \/ \E f \in Frames : BalanceAccess(f)
    \/ \E f \in Frames : BalanceGet(f)
    \/ \E f \in Frames : Extcodesize(f)
    \/ \E f \in Frames : ExtcodesizeAccess(f)
    \/ \E f \in Frames : ExtcodesizeGet(f)
    \/ \E f \in Frames : PushTxcontext(f)
    \/ \E f \in Frames : PushTxcontextGet(f)
    \/ \E f \in Frames : Selfbalance(f)
    \/ \E f \in Frames : SelfbalanceGet(f)
    \/ \E f \in Frames : Blockhash(f)
    \/ \E f \in Frames : BlockhashContext(f)
    \/ \E f \in Frames : BlockhashGet(f)
    \/ \E f \in Frames : DoLog(f)
    \/ \E f \in Frames : DoLogEmit(f)
    \/ \E f \in Frames : Sload(f)
    \/ \E f \in Frames : SloadAccess(f)
    \/ \E f \in Frames : SloadGet(f)
    \/ \E f \in Frames : Sstore(f)
    \/ \E f \in Frames : SstoreAccess(f)
    \/ \E f \in Frames : SstoreSet(f)
    \/ \E f \in Frames : Selfdestruct(f)
    \/ \E f \in Frames : SelfdestructAccess(f)
    \/ \E f \in Frames : SelfdestructBalance(f)
    \/ \E f \in Frames : SelfdestructExists(f)
    \/ \E f \in Frames : SelfdestructEnd(f)

Spec == Init /\ [][Next]_vars

\* Two call frames of a nested call, interleaved by the driver.  Both run at
\* Berlin, where every request of the catalogue is issued.
FrameGasValues == {SstoreStipend + 1, COLD_ACCOUNT_ACCESS_COST + SelfdestructNewAccountCost}

FrameStates(f) ==
    {[stack |-> <<<<0, 0, 0>>, <<1, 0, 0>>>> \o TopicWords, gas_left |-> g,
      memory |-> InitialMemory, message |-> MessageOf(f, FALSE), evm_revision |-> Berlin] :
        g \in FrameGasValues}

InitFrames ==
    /\ \E s \in [Frames -> FrameStates(1)] :
         state = [f \in Frames |-> [s[f] EXCEPT !.message = MessageOf(f, FALSE)]]
    /\ entry = state
    /\ op = [f \in Frames |-> "none"]
    /\ pc = [f \in Frames |-> "ready"]
    /\ locals = [f \in Frames |-> NoLocals]
    /\ interrupt = [f \in Frames |-> NoInterrupt]
    /\ issued = [f \in Frames |-> <<>>]
    /\ resumed = [f \in Frames |-> <<>>]
    /\ result = [f \in Frames |-> "none"]

SpecFrames == InitFrames /\ [][Next]_vars

\* ------------------------------------------------------- reading the state

GasUsed(f) == entry[f].gas_left - state[f].gas_left
Popped(f) == Len(entry[f].stack) - Len(state[f].stack)
HasKind(seq, k) == \E i \in 1..Len(seq) : seq[i].kind = k
CountKind(seq, k) == Cardinality({i \in 1..Len(seq) : seq[i].kind = k})
\* The answer of kind k that frame f's handler received (there is at most one).
Answer(f, k) == resumed[f][CHOOSE i \in 1..Len(resumed[f]) : resumed[f][i].kind = k]
Answered(f, k) == HasKind(resumed[f], k)
Returned(f) == result[f] \in {"ok", "OutOfGas", "StaticModeViolation"}
MutatingOps == {"sstore", "selfdestruct", "log0", "log1", "log2", "log3", "log4"}

\* ------------------------------------------------------------------ claims

\* C1: whenever a handler that started with gas_left >= 0 has driven gas_left
\* below zero, it has returned OutOfGas and has no request outstanding: no
\* request is issued, and no handler succeeds, with negative gas.
C1_OutOfGasAfterEveryDeduction ==
    \A f \in Live :
        (entry[f].gas_left >= 0 /\ state[f].gas_left < 0)
            => (result[f] = "OutOfGas" /\ interrupt[f] = NoInterrupt)

\* C2: from Berlin on, a successful BALANCE, EXTCODESIZE or SLOAD has deducted
\* exactly the cold surcharge (cold minus warm cost) when the access status
\* answered was Cold, and nothing when it was Warm.
C2_ColdSurchargeExact ==
    \A f \in Live :
        (op[f] \in {"balance", "extcodesize", "sload"} /\ result[f] = "ok"
         /\ entry[f].evm_revision >= Berlin)
            => /\ Len(resumed[f]) = 2
               /\ resumed[f][1].kind \in {"AccessAccountStatus", "AccessStorageStatus"}
               /\ GasUsed(f) =
                    IF resumed[f][1].status = Warm THEN 0
                    ELSE IF op[f] = "sload" THEN COLD_SLOAD_COST - WARM_STORAGE_READ_COST
                    ELSE ADDITIONAL_COLD_ACCOUNT_ACCESS_COST

C2_Witness ==
    \E f \in Live :
        /\ op[f] = "balance" /\ result[f] = "ok" /\ entry[f].evm_revision = London
        /\ resumed[f][1] = [kind |-> "AccessAccountStatus", status |-> Cold]
        /\ GasUsed(f) = ADDITIONAL_COLD_ACCOUNT_ACCESS_COST
        /\ GasUsed(f) > 0

\* C3: under a static call SSTORE, LOG0-4 and SELFDESTRUCT return
\* StaticModeViolation at once: stack, gas and memory are as on entry and no
\* request was issued, at every revision and gas value.
C3_StaticGuard ==
    \A f \in Live :
        (op[f] \in MutatingOps /\ entry[f].message.is_static)
            => /\ result[f] = "StaticModeViolation"
               /\ state[f] = entry[f]
               /\ issued[f] = <<>>

C3_Witness ==
    \E f \in Live :
        /\ op[f] = "sstore" /\ entry[f].message.is_static
        /\ entry[f].evm_revision = Istanbul /\ entry[f].gas_left = SstoreStipend
        /\ result[f] = "StaticModeViolation"

\* C4 as stated: every SSTORE invoked at Istanbul or later with
\* gas_left <= 2300 fails with OutOfGas, nothing popped, no request issued.
C4_StipendGuardAsStated ==
    \A f \in Live :
        (op[f] = "sstore" /\ entry[f].evm_revision >= Istanbul
         /\ entry[f].gas_left <= 2300)
            => /\ result[f] = "OutOfGas"
               /\ state[f] = entry[f]
               /\ issued[f] = <<>>

\* C4 (amended): a non-static SSTORE invoked at Istanbul or later with
\* gas_left <= 2300 fails with OutOfGas, nothing popped, no request issued;
\* with gas_left = 2301 or more, or before Istanbul, the guard does not fire:
\* both operands are popped and a request is issued.
C4_StipendGuard ==
    \A f \in Live :
        (op[f] = "sstore" /\ ~entry[f].message.is_static)
            => IF entry[f].evm_revision >= Istanbul /\ entry[f].gas_left <= 2300
                 THEN /\ result[f] = "OutOfGas"
                      /\ state[f] = entry[f]
                      /\ issued[f] = <<>>
                 ELSE /\ Popped(f) = 2
                      /\ Len(issued[f]) >= 1
                      /\ issued[f][1].kind \in {"AccessStorage", "SetStorage"}

C4_Witness ==
    \E f \in Live :
        /\ op[f] = "sstore" /\ ~entry[f].message.is_static
        /\ entry[f].evm_revision = Istanbul /\ entry[f].gas_left = 2300
        /\ result[f] = "OutOfGas" /\ issued[f] = <<>>

\* The table of the storage-status prices.
C5_Table(revision, cold, status) ==
    LET c == IF cold THEN 2100 ELSE 0 IN
    IF revision >= Berlin
      THEN CASE status \in {"Unchanged", "ModifiedAgain"} -> c + 100
             [] status \in {"Modified", "Deleted"} -> c + 5000 - 2100
             [] status = "Added" -> c + 20000
      ELSE CASE status \in {"Unchanged", "ModifiedAgain"} ->
                    IF revision = Constantinople THEN 200
                    ELSE IF revision = Istanbul THEN 800 ELSE 5000
             [] status \in {"Modified", "Deleted"} -> 5000
             [] status = "Added" -> 20000

\* C5: once the host has answered SetStorage with a StorageStatus, the gas
\* SSTORE has deducted in all is the table's price for that status and
\* revision, with the slot's Cold or Warm access counted from Berlin on.
C5_SstorePricing ==
    \A f \in Live :
        (op[f] = "sstore" /\ Answered(f, "StorageStatusInfo"))
            => GasUsed(f) =
                 C5_Table(entry[f].evm_revision,
                          Answered(f, "AccessStorageStatus")
                            /\ Answer(f, "AccessStorageStatus").status = Cold,
                          Answer(f, "StorageStatusInfo").status)

C5_Witness ==
    \E f \in Live :
        /\ op[f] = "sstore" /\ result[f] = "ok" /\ entry[f].evm_revision = Berlin
        /\ Answered(f, "AccessStorageStatus")
        /\ Answer(f, "AccessStorageStatus").status = Cold
        /\ Answer(f, "StorageStatusInfo").status = "Deleted"
        /\ GasUsed(f) = 5000

\* The block number BLOCKHASH popped, and the current block number it was told.
C6_Requested(f) == entry[f].stack[1]
C6_Current(f) == Answer(f, "TxContextData").context.block_number
C6_PushedZero(f) ==
    /\ result[f] = "ok"
    /\ state[f].stack = <<<<0, 0, 0>>>> \o Tail(entry[f].stack)
    /\ ~HasKind(issued[f], "GetBlockHash")

\* C6 as stated: BLOCKHASH of n pushes zero without a GetBlockHash request
\* whenever n >= B, whenever n <= B - 256, and whenever n exceeds 64 bits.
C6_ZeroOutsideWindowAsStated ==
    \A f \in Live :
        (op[f] = "blockhash" /\ Answered(f, "TxContextData")
         /\ (\/ ~FitsU64(C6_Requested(f))
             \/ C6_Requested(f)[1] >= C6_Current(f)
             \/ C6_Requested(f)[1] <= C6_Current(f) - 256))
            => C6_PushedZero(f)

\* C6 (amended): BLOCKHASH of n pushes zero without a GetBlockHash request
\* whenever n >= B, whenever n < B - 256 (more than 256 blocks behind), and
\* whenever n exceeds 64 bits.
C6_ZeroOutsideWindow ==
    \A f \in Live :
        (op[f] = "blockhash" /\ Answered(f, "TxContextData")
         /\ (\/ ~FitsU64(C6_Requested(f))
             \/ C6_Requested(f)[1] >= C6_Current(f)
             \/ C6_Requested(f)[1] < C6_Current(f) - 256))
            => C6_PushedZero(f)

C6_Witness ==
    \E f \in Live :
        /\ op[f] = "blockhash" /\ Answered(f, "TxContextData")
        /\ C6_Current(f) = 257 /\ C6_Requested(f) = <<0, 0, 0>>
        /\ C6_PushedZero(f)

\* C7: BLOCKHASH of an n of at most 64 bits with lower <= n < B, where lower is
\* B - 256 or 0 when B < 256, issues GetTxContext and then one GetBlockHash
\* request for n and, resumed, pushes the number of the hash it was given; a
\* BLOCKHASH that succeeds has popped one word and pushed one.
C7_HashInsideWindow ==
    \A f \in Live :
        /\ (op[f] = "blockhash" /\ result[f] = "ok") => Popped(f) = 0
        /\ (op[f] = "blockhash" /\ Answered(f, "TxContextData")
            /\ FitsU64(C6_Requested(f))
            /\ (IF C6_Current(f) < 256 THEN 0 ELSE C6_Current(f) - 256)
                    <= C6_Requested(f)[1]
            /\ C6_Requested(f)[1] < C6_Current(f))
              => /\ issued[f] = <<[kind |-> "GetTxContext"],
                                  [kind |-> "GetBlockHash",
                                   block_number |-> C6_Requested(f)[1]]>>
                 /\ result[f] = "ok" =>
                      /\ Len(resumed[f]) = 2
                      /\ resumed[f][2].kind = "BlockHash"
                      /\ state[f].stack =
                           <<<<resumed[f][2].hash[3], resumed[f][2].hash[2],
                               resumed[f][2].hash[1]>>>> \o Tail(entry[f].stack)

C7_Witness ==
    \E f \in Live :
        /\ op[f] = "blockhash" /\ result[f] = "ok"
        /\ C6_Current(f) = 256 /\ C6_Requested(f) = <<0, 0, 0>>
        /\ issued[f][2] = [kind |-> "GetBlockHash", block_number |-> 0]
        /\ state[f].stack[1] = <<9, 0, 7>>

\* What SELFDESTRUCT has deducted for the beneficiary's access, and the rest.
C9_AccessPart(f) ==
    IF Answered(f, "AccessAccountStatus") /\ Answer(f, "AccessAccountStatus").status = Cold
      THEN 2600 ELSE 0
C8_NewAccountPart(f) == GasUsed(f) - C9_AccessPart(f)
\* The handler is past the non-existent-beneficiary charge: it has issued the
\* Selfdestruct request, or the charge itself ran it out of gas.
C8_Decided(f) ==
    \/ HasKind(issued[f], "Selfdestruct")
    \/ result[f] = "OutOfGas" /\ Answered(f, "AccountExistsStatus")

\* C8: SELFDESTRUCT deducts the 25000 surcharge, at Tangerine Whistle, exactly
\* when the beneficiary does not exist, whatever the balance (which is not
\* even requested); after Tangerine Whistle, exactly when the destination's
\* balance is non-zero and the beneficiary does not exist; before, never.
C8_NewAccountSurcharge ==
    \A f \in Live :
        (op[f] = "selfdestruct" /\ C8_Decided(f))
            => LET rev == entry[f].evm_revision
                   missing == Answered(f, "AccountExistsStatus")
                                /\ ~Answer(f, "AccountExistsStatus").exists
                   funded == Answered(f, "Balance")
                                /\ Answer(f, "Balance").balance # <<0, 0, 0>>
               IN  /\ C8_NewAccountPart(f) \in {0, 25000}
                   /\ rev < Tangerine => C8_NewAccountPart(f) = 0
                   /\ rev = Tangerine =>
                        /\ Answered(f, "AccountExistsStatus")
                        /\ ~Answered(f, "Balance")
                        /\ (C8_NewAccountPart(f) = 25000) <=> missing
                   /\ rev > Tangerine =>
                        /\ Answered(f, "Balance")
                        /\ Answered(f, "AccountExistsStatus") <=> funded
                        /\ (C8_NewAccountPart(f) = 25000) <=> (funded /\ missing)

C8_Witness ==
    \E f \in Live :
        /\ op[f] = "selfdestruct" /\ result[f] = "ok"
        /\ entry[f].evm_revision = Spurious
        /\ Answer(f, "Balance").balance = <<0, 0, 1>>
        /\ ~Answer(f, "AccountExistsStatus").exists
        /\ GasUsed(f) = 25000

\* C9: from Berlin on SELFDESTRUCT asks for the beneficiary's access status
\* first and deducts the full cold account access cost, 2600, when it is Cold
\* and nothing when it is Warm; before Berlin it issues no AccessAccount
\* request and deducts nothing for access.
C9_FullColdCost ==
    \A f \in Live :
        (op[f] = "selfdestruct" /\ ~entry[f].message.is_static)
            => IF entry[f].evm_revision >= Berlin
                 THEN /\ issued[f][1] = [kind |-> "AccessAccount",
                                         address |-> <<entry[f].stack[1][1],
                                                       entry[f].stack[1][2]>>]
                      /\ CountKind(issued[f], "AccessAccount") = 1
                      /\ Len(resumed[f]) >= 1 =>
                           /\ resumed[f][1].kind = "AccessAccountStatus"
                           /\ GasUsed(f)
                                - (IF Answered(f, "AccountExistsStatus")
                                      /\ ~Answer(f, "AccountExistsStatus").exists
                                     THEN 25000 ELSE 0)
                                = (IF resumed[f][1].status = Cold
                                     THEN COLD_ACCOUNT_ACCESS_COST ELSE 0)
                 ELSE /\ ~HasKind(issued[f], "AccessAccount")
                      /\ ~Answered(f, "AccessAccountStatus")
                      /\ GasUsed(f) \in {0, 25000}

C9_Witness ==
    \E f \in Live :
        /\ op[f] = "selfdestruct" /\ result[f] = "ok"
        /\ entry[f].evm_revision = Berlin
        /\ resumed[f][1] = [kind |-> "AccessAccountStatus", status |-> Cold]
        /\ Answer(f, "Balance").balance = <<0, 0, 0>>
        /\ GasUsed(f) = 2600

\* What a LOGk that ran to its EmitLog request must have done, given the
\* state in which the memory accessor left the frame.
C10_LogDone(f) ==
    LET k == NumTopics(op[f])
        offset == entry[f].stack[1]
        size == entry[f].stack[2]
        n == IF size = <<0, 0, 0>> THEN 0 ELSE size[1]
        v == verify_memory_region([entry[f] EXCEPT !.stack = Tail(Tail(@))], offset, size)
    IN  /\ Popped(f) = 2 + k
        /\ state[f].stack = SubSeq(entry[f].stack, 3 + k, Len(entry[f].stack))
        /\ v.state.gas_left - state[f].gas_left = 8 * n
        /\ n = 0 => GasUsed(f) = 0
        /\ Len(issued[f]) = 1
        /\ issued[f][1].kind = "EmitLog"
        /\ issued[f][1].address = entry[f].message.destination
        /\ Len(issued[f][1].data) = n
        /\ \A j \in 1..n : issued[f][1].data[j] = state[f].memory[offset[1] + j]
        /\ Len(issued[f][1].topics) = k
        /\ \A i \in 1..k :
             issued[f][1].topics[i] = <<entry[f].stack[2 + i][3], entry[f].stack[2 + i][2],
                                        entry[f].stack[2 + i][1]>>

\* C10 as stated: every non-static LOGk pops 2 + k words, deducts 8 gas per
\* byte of its region and issues one EmitLog request with the destination,
\* the region's bytes and the k topics in stack order.
C10_LogAsStated ==
    \A f \in Live :
        (IsLogOp(op[f]) /\ ~entry[f].message.is_static) => C10_LogDone(f)

\* C10 (amended): every non-static LOGk whose memory region the memory
\* accessor resolves without error pops 2 + k words, deducts 8 gas per byte of
\* its region (nothing for a zero-length one) and issues one EmitLog request
\* with the destination, the region's bytes and the k topics in stack order.
C10_Log ==
    \A f \in Live :
        (/\ IsLogOp(op[f])
         /\ ~entry[f].message.is_static
         /\ ~verify_memory_region([entry[f] EXCEPT !.stack = Tail(Tail(@))],
                                  entry[f].stack[1], entry[f].stack[2]).err)
            => C10_LogDone(f)

C10_Witness ==
    \E f \in Live :
        /\ op[f] = "log2" /\ result[f] = "ok"
        /\ entry[f].stack[1] = <<1, 0, 0>> /\ entry[f].stack[2] = <<2, 0, 0>>
        /\ GasUsed(f) = 16
        /\ issued[f] = <<[kind |-> "EmitLog", address |-> <<21, 5>>, data |-> <<2, 3>>,
                          topics |-> <<<<0, 0, 11>>, <<0, 1, 12>>>>]>>
        /\ Len(state[f].stack) = 2

\* C11: in every interleaving of the frames, a frame has at most one request
\* outstanding, namely the last it issued; it issues a request only when all
\* earlier ones were answered; and the answers it has taken are, in order, the
\* answers to the requests it issued.
C11_OneOutstandingInOrder ==
    \A f \in Live :
        /\ Len(resumed[f]) <= Len(issued[f])
        /\ Len(issued[f]) <= Len(resumed[f]) + 1
        /\ interrupt[f] # NoInterrupt =>
             /\ Len(issued[f]) = Len(resumed[f]) + 1
             /\ interrupt[f] = issued[f][Len(issued[f])]
        /\ Len(issued[f]) = Len(resumed[f]) + 1 =>
             (interrupt[f] # NoInterrupt \/ result[f] = "panic")
        /\ \A i \in 1..Len(resumed[f]) :
             resumed[f][i].kind = ResumeKindFor(issued[f][i].kind)

C11_Witness ==
    \E f \in Live, g \in Live :
        /\ f # g
        /\ op[f] = "sstore" /\ Len(resumed[f]) = 1 /\ interrupt[f].kind = "SetStorage"
        /\ op[g] = "selfdestruct" /\ Len(resumed[g]) = 3
        /\ interrupt[g].kind = "Selfdestruct"

\* C12: every step that resumes a suspended handler either takes an answer of
\* the kind that answers the outstanding request, or is a panic: the handler
\* is over with result "panic", not a typed status, its stack, gas and memory
\* are as they were, and it has issued nothing more; a panicked handler never
\* moves again.
C12_MismatchPanics ==
    [][\A f \in Live :
        /\ (interrupt[f] # NoInterrupt
            /\ <<pc[f], state[f], resumed[f], result[f], issued[f], interrupt[f]>>'
                 # <<pc[f], state[f], resumed[f], result[f], issued[f], interrupt[f]>>)
              => \/ /\ Len(resumed'[f]) = Len(resumed[f]) + 1
                    /\ resumed'[f][Len(resumed'[f])].kind = ResumeKindFor(interrupt[f].kind)
                    /\ result'[f] # "panic"
                 \/ /\ result'[f] = "panic"
                    /\ pc'[f] = "done"
                    /\ interrupt'[f] = NoInterrupt
                    /\ state'[f] = state[f]
                    /\ issued'[f] = issued[f]
                    /\ resumed'[f] = resumed[f]
        /\ result[f] = "panic"
              => /\ result'[f] = "panic"
                 /\ state'[f] = state[f]
                 /\ issued'[f] = issued[f]
                 /\ interrupt'[f] = NoInterrupt
      ]_vars

C12_Witness ==
    \E f \in Live :
        /\ op[f] = "log1" /\ result[f] = "panic"
        /\ issued[f][1].kind = "EmitLog" /\ resumed[f] = <<>>
        /\ Len(state[f].stack) = 3

\* C13: ADDRESS, CALLER and CALLVALUE are over as soon as they are invoked:
\* they have succeeded, issued no request, deducted no gas and pushed one
\* word, the destination, the sender (zero-extended addresses) or the value.
C13_NoRequestHandlers ==
    \A f \in Live :
        op[f] \in {"address", "caller", "callvalue"}
            => LET m == entry[f].message
                   word == CASE op[f] = "address" -> <<m.destination[1], m.destination[2], 0>>
                             [] op[f] = "caller" -> <<m.sender[1], m.sender[2], 0>>
                             [] op[f] = "callvalue" -> m.value
               IN  /\ pc[f] = "done" /\ result[f] = "ok"
                   /\ issued[f] = <<>> /\ resumed[f] = <<>>
                   /\ interrupt[f] = NoInterrupt
                   /\ state[f] = [entry[f] EXCEPT !.stack = <<word>> \o @]

C13_Witness ==
    \E f \in Live :
        /\ op[f] = "caller" /\ result[f] = "ok"
        /\ state[f].stack[1] = <<31, 6, 0>>
        /\ Len(state[f].stack) = 7
        /\ state[f].gas_left = entry[f].gas_left

\* C14: a step in which a suspended frame is not resumed leaves that frame's
\* stack, gas, memory and outstanding request as they are; and every step
\* is a step of one frame, leaving every other frame untouched.
C14_FramesIndependent ==
    [][/\ \A f \in Live :
            (interrupt[f] # NoInterrupt /\ resumed'[f] = resumed[f]
             /\ result'[f] = result[f])
                => /\ state'[f] = state[f]
                   /\ interrupt'[f] = interrupt[f]
                   /\ pc'[f] = pc[f]
       /\ \E f \in Live : \A g \in Live \ {f} :
            <<state[g], interrupt[g], pc[g], issued[g], resumed[g], result[g], locals[g]>>'
              = <<state[g], interrupt[g], pc[g], issued[g], resumed[g], result[g], locals[g]>>
      ]_vars

C14_Witness ==
    \E f \in Live, g \in Live :
        /\ f # g
        /\ op[f] = "balance" /\ interrupt[f].kind = "GetBalance"
        /\ Len(resumed[f]) = 1 /\ resumed[f][1].status = Warm
        /\ state[f].gas_left = entry[f].gas_left
        /\ op[g] = "balance" /\ result[g] = "ok"
        /\ resumed[g][1].status = Cold
        /\ GasUsed(g) = ADDITIONAL_COLD_ACCOUNT_ACCESS_COST

\* The word each transaction-context read projects out of the TxContext:
\* addresses and 64-bit quantities are zero-extended to 256 bits.
C15_Field(o, c) ==
    CASE o = "origin" -> <<c.tx_origin[1], c.tx_origin[2], 0>>
      [] o = "coinbase" -> <<c.block_coinbase[1], c.block_coinbase[2], 0>>
      [] o = "gasprice" -> c.tx_gas_price
      [] o = "timestamp" -> <<c.block_timestamp, 0, 0>>
      [] o = "number" -> <<c.block_number, 0, 0>>
      [] o = "gaslimit" -> <<c.block_gas_limit, 0, 0>>
      [] o = "difficulty" -> c.block_difficulty
      [] o = "chainid" -> c.chain_id
      [] o = "basefee" -> c.block_base_fee

\* C15: at every revision a transaction-context read has issued exactly one
\* request, GetTxContext, and SELFBALANCE exactly one, GetBalance for the
\* destination; neither deducts gas or returns a typed failure, and on
\* success one word is pushed: the projected field, or the balance answered.
C15_ContextReads ==
    \A f \in Live :
        (op[f] \in TxContextOps \cup {"selfbalance"})
            => /\ issued[f] = IF op[f] = "selfbalance"
                                THEN <<[kind |-> "GetBalance",
                                        address |-> entry[f].message.destination]>>
                                ELSE <<[kind |-> "GetTxContext"]>>
               /\ result[f] \in {"none", "ok", "panic"}
               /\ state[f].gas_left = entry[f].gas_left
               /\ result[f] # "ok" => state[f] = entry[f]
               /\ result[f] = "ok" =>
                    /\ Len(resumed[f]) = 1
                    /\ state[f] =
                         [entry[f] EXCEPT !.stack =
                            <<IF op[f] = "selfbalance" THEN resumed[f][1].balance
                              ELSE C15_Field(op[f], resumed[f][1].context)>> \o @]

C15_Witness ==
    \E f \in Live :
        /\ op[f] = "timestamp" /\ result[f] = "ok"
        /\ entry[f].evm_revision = Frontier
        /\ resumed[f][1].context.block_number = 257
        /\ state[f].stack[1] = <<54, 0, 0>>

\* The requests of an SSTORE that passed its guards, in order.
C16_Expected(f) ==
    LET k == entry[f].stack[1]
        v == entry[f].stack[2]
        dest == entry[f].message.destination
        key == <<k[3], k[2], k[1]>>
        value == <<v[3], v[2], v[1]>>
    IN  (IF entry[f].evm_revision >= Berlin
           THEN <<[kind |-> "AccessStorage", address |-> dest, key |-> key]>>
           ELSE <<>>)
        \o <<[kind |-> "SetStorage", address |-> dest, key |-> key, value |-> value]>>

\* C16: a non-static SSTORE past the stipend guard has popped the key (top)
\* and the value (next); its requests are AccessStorage for the key, from
\* Berlin on only, then one SetStorage of the value at the key; its gas is
\* untouched while it is suspended and is deducted only once SetStorage
\* has been answered.
C16_SstoreSequence ==
    \A f \in Live :
        (op[f] = "sstore" /\ ~entry[f].message.is_static
         /\ ~(entry[f].evm_revision >= Istanbul /\ entry[f].gas_left <= 2300))
            => /\ state[f].stack = Tail(Tail(entry[f].stack))
               /\ Len(issued[f]) >= 1
               /\ Len(issued[f]) <= Len(C16_Expected(f))
               /\ issued[f] = SubSeq(C16_Expected(f), 1, Len(issued[f]))
               /\ result[f] \in {"ok", "OutOfGas"} => issued[f] = C16_Expected(f)
               /\ interrupt[f] # NoInterrupt => state[f].gas_left = entry[f].gas_left
               /\ state[f].gas_left # entry[f].gas_left =>
                    /\ Answered(f, "StorageStatusInfo")
                    /\ pc[f] = "done"

C16_Witness ==
    \E f \in Live :
        /\ op[f] = "sstore" /\ result[f] = "ok" /\ entry[f].evm_revision = London
        /\ entry[f].stack[1] = <<1, 0, 1>> /\ entry[f].stack[2] = <<2, 0, 0>>
        /\ issued[f] = <<[kind |-> "AccessStorage", address |-> <<21, 5>>,
                          key |-> <<1, 0, 1>>],
                         [kind |-> "SetStorage", address |-> <<21, 5>>,
                          key |-> <<1, 0, 1>>, value |-> <<0, 0, 2>>]>>
        /\ GasUsed(f) > 0

C17_Ops == {"balance", "extcodesize", "sload"}

\* The access-status request of a BALANCE, EXTCODESIZE or SLOAD.
C17_AccessRequest(f) ==
    IF op[f] = "sload"
      THEN [kind |-> "AccessStorage", address |-> entry[f].message.destination,
            key |-> H256FromU256(entry[f].stack[1])]
      ELSE [kind |-> "AccessAccount", address |-> u256_to_address(entry[f].stack[1])]

C17_DataKind(f) ==
    CASE op[f] = "balance" -> "GetBalance"
      [] op[f] = "extcodesize" -> "GetCodeSize"
      [] op[f] = "sload" -> "GetStorage"

\* C17: BALANCE, EXTCODESIZE and SLOAD request the access status exactly from
\* Berlin on, and before the data request; before Berlin the data request is
\* the only one and the gas is untouched; once the surcharge has made
\* gas_left negative there is no data request and only the operand was popped.
C17_AccessBeforeData ==
    \A f \in Live :
        op[f] \in C17_Ops =>
            /\ Len(issued[f]) >= 1
            /\ entry[f].evm_revision >= Berlin =>
                /\ issued[f][1] = C17_AccessRequest(f)
                /\ Len(issued[f]) <= 2
                /\ Len(issued[f]) = 2 => issued[f][2].kind = C17_DataKind(f)
                /\ result[f] = "ok" => Len(issued[f]) = 2
            /\ entry[f].evm_revision < Berlin =>
                /\ Len(issued[f]) = 1
                /\ issued[f][1].kind = C17_DataKind(f)
                /\ GasUsed(f) = 0
            /\ state[f].gas_left < 0 =>
                /\ ~HasKind(issued[f], C17_DataKind(f))
                /\ state[f].stack = Tail(entry[f].stack)
                /\ result[f] = "OutOfGas"

C17_Witness ==
    \E f \in Live :
        /\ op[f] = "sload" /\ entry[f].evm_revision = Berlin
        /\ result[f] = "OutOfGas" /\ state[f].gas_left < 0
        /\ issued[f] = <<C17_AccessRequest(f)>>

\* The requests of a non-static SELFDESTRUCT, in order, as far as the answers
\* received so far determine them.
C18_Expected(f) ==
    LET rev == entry[f].evm_revision
        dest == entry[f].message.destination
        beneficiary == u256_to_address(entry[f].stack[1])
    IN  (IF rev >= Berlin
           THEN <<[kind |-> "AccessAccount", address |-> beneficiary]>> ELSE <<>>)
        \o (IF rev > Tangerine
              THEN <<[kind |-> "GetBalance", address |-> dest]>> ELSE <<>>)
        \o (IF \/ rev = Tangerine
               \/ /\ rev > Tangerine
                  /\ Answered(f, "Balance")
                  /\ ~U256IsZero(Answer(f, "Balance").balance)
              THEN <<[kind |-> "AccountExists", address |-> beneficiary]>> ELSE <<>>)
        \o <<[kind |-> "Selfdestruct", address |-> dest, beneficiary |-> beneficiary]>>

\* C18: the requests of a non-static SELFDESTRUCT are, in this order,
\* AccessAccount of the beneficiary (from Berlin on), GetBalance of the
\* destination (after Tangerine Whistle), AccountExists of the beneficiary
\* (at Tangerine Whistle, or after it when the balance is non-zero) and
\* Selfdestruct; before Tangerine Whistle Selfdestruct is the only request
\* and at Tangerine Whistle there is no GetBalance.
C18_SelfdestructOrder ==
    \A f \in Live :
        (op[f] = "selfdestruct" /\ ~entry[f].message.is_static) =>
            /\ Len(issued[f]) >= 1
            /\ Len(issued[f]) <= Len(C18_Expected(f))
            /\ issued[f] = SubSeq(C18_Expected(f), 1, Len(issued[f]))
            /\ (entry[f].evm_revision > Tangerine /\ ~Answered(f, "Balance")) =>
                  ~HasKind(issued[f], "Selfdestruct")
            /\ result[f] = "ok" => issued[f] = C18_Expected(f)
            /\ entry[f].evm_revision < Tangerine => Len(issued[f]) = 1
            /\ entry[f].evm_revision = Tangerine => ~HasKind(issued[f], "GetBalance")

C18_Witness ==
    \E f \in Live :
        /\ op[f] = "selfdestruct" /\ result[f] = "ok"
        /\ entry[f].evm_revision = London
        /\ Len(issued[f]) = 4
        /\ issued[f][1].kind = "AccessAccount" /\ issued[f][2].kind = "GetBalance"
        /\ issued[f][3].kind = "AccountExists" /\ issued[f][4].kind = "Selfdestruct"

C19_EffectOf(o) ==
    CASE o = "sstore" -> {"SetStorage"}
      [] o = "selfdestruct" -> {"Selfdestruct"}
      [] o \in {"log0", "log1", "log2", "log3", "log4"} -> {"EmitLog"}
      [] OTHER -> {}

C19_Effects(f) == {i \in 1..Len(issued[f]) : issued[f][i].kind \in EffectKinds}

\* C19: an invocation issues at most one effect request, of the kind of its
\* instruction, and nothing after it; while it is suspended on any other
\* request no effect request has been issued; the read-only handlers issue
\* none at all.
C19_EffectLast ==
    \A f \in Live :
        /\ Cardinality(C19_Effects(f)) <= 1
        /\ \A i \in C19_Effects(f) :
              /\ i = Len(issued[f])
              /\ issued[f][i].kind \in C19_EffectOf(op[f])
        /\ (interrupt[f] # NoInterrupt /\ interrupt[f].kind \notin EffectKinds) =>
              C19_Effects(f) = {}
        /\ op[f] \notin MutatingOps => C19_Effects(f) = {}

C19_Witness ==
    \E f \in Live :
        /\ op[f] = "selfdestruct" /\ result[f] = "ok"
        /\ Len(issued[f]) = 4
        /\ C19_Effects(f) = {4}
        /\ issued[f][4].kind = "Selfdestruct"

\* C20: no step of any handler raises gas_left, whatever the revision and
\* the answers of the host; a handler that returns StaticModeViolation, and
\* an SSTORE refused by the stipend guard, leave gas_left as it was on entry.
C20_GasNeverIncreases ==
    [][\A f \in Live :
        /\ state'[f].gas_left <= state[f].gas_left
        /\ result'[f] = "StaticModeViolation" =>
              state'[f].gas_left = entry[f].gas_left
        /\ (/\ op'[f] = "sstore"
            /\ ~entry[f].message.is_static
            /\ entry[f].evm_revision >= Istanbul
            /\ entry[f].gas_left <= 2300) =>
              /\ result'[f] = "OutOfGas"
              /\ state'[f].gas_left = entry[f].gas_left
              /\ issued'[f] = <<>>
      ]_vars

C20_Witness ==
    \E f \in Live :
        /\ op[f] = "selfdestruct" /\ result[f] = "ok"
        /\ Answered(f, "AccessAccountStatus") /\ Answered(f, "AccountExistsStatus")
        /\ entry[f].gas_left = COLD_ACCOUNT_ACCESS_COST + SelfdestructNewAccountCost
        /\ state[f].gas_left = 0

====
